---- MODULE Spec2Model ----
(***************************************************************************)
(* Point-in-time feature engine and training data collection of the PWHL   *)
(* prediction package (src/src/prediction), over the games table that      *)
(* load_game_data (src/src/database/load_data.py) fills.                   *)
(*                                                                         *)
(* Numbers: Python's int / int and float arithmetic on these values is     *)
(* modelled by exact rationals <<numerator, denominator>> in lowest terms  *)
(* (denominator > 0).  For the quotients of small integers computed here   *)
(* two quotients are equal as floats exactly when they are equal as        *)
(* rationals, and x + (1.0 - x) == 1.0 holds for every float x in [0, 1].  *)
(***************************************************************************)
EXTENDS Integers, Sequences, FiniteSets, TLC

(* ------------------------------ bounds -------------------------------- *)
NumTeams == 3
MaxDate == 2
MaxScore == 1
MaxGames == 2
MaxMinGames == 1
MaxTrainGames == 3
NumCallers == 2

(* ------------------------- program constants -------------------------- *)
SeasonId == 8
RestPrior == 7
DaysAhead == 7

Teams == 1..NumTeams
Dates == 1..MaxDate
CutoffDates == 1..(MaxDate + 1)
Scores == 0..MaxScore
GameIds == 1..MaxGames
Seasons == {SeasonId - 1, SeasonId}
Statuses == {"final", "in_progress"}
FeatureSets == {"reduced", "full"}

(* ----------------------------- rationals ------------------------------ *)
Abs(x) == IF x < 0 THEN -x ELSE x

RECURSIVE GCD(_, _)
GCD(a, b) == IF b = 0 THEN a ELSE GCD(b, a % b)

Frac(n, d) == LET g == GCD(Abs(n), d) IN <<n \div g, d \div g>>

FromInt(n) == <<n, 1>>

FSub(a, b) == Frac(a[1] * b[2] - b[1] * a[2], a[2] * b[2])

WinPctPrior == <<1, 2>>

GoalsPrior == <<5, 2>>

H2HPrior == <<1, 2>>

One == <<1, 1>>

(* ------------------------------ the store ----------------------------- *)
Game == [game_id : GameIds, season_id : Seasons, date : Dates,
         home_team_id : Teams, away_team_id : Teams,
         home_score : Scores, away_score : Scores, game_status : Statuses]

\* The matchup get_game_features is asked about.  The table holds every team
\* in both roles, so one fixture meets every arrangement of prior games up to
\* a renaming of the teams.
Fixtures == {<<1, 2>>}

Matchups == {g \in Game : g.home_team_id # g.away_team_id}

Merge(st, game) == {g \in st : g.game_id # game.game_id} \cup {game}

(* ----------------------- calculate_team_win_percentage ---------------- *)
\* Mutant: the cutoff test admits the cutoff date itself.
WinPctQuery_ThroughCutoff(st, team_id, before_date, season_id, home_only, away_only) ==
    LET base == {g \in st : /\ g.season_id = season_id
                            /\ g.date <= before_date
                            /\ g.game_status = "final"}
    IN  IF home_only THEN {g \in base : g.home_team_id = team_id}
        ELSE IF away_only THEN {g \in base : g.away_team_id = team_id}
        ELSE {g \in base : g.home_team_id = team_id \/ g.away_team_id = team_id}

WinPctQuery(st, team_id, before_date, season_id, home_only, away_only) ==
    LET base == {g \in st : /\ g.season_id = season_id
                            /\ g.date < before_date
                            /\ g.game_status = "final"}
    IN  IF home_only THEN {g \in base : g.home_team_id = team_id}
        ELSE IF away_only THEN {g \in base : g.away_team_id = team_id}
        ELSE {g \in base : g.home_team_id = team_id \/ g.away_team_id = team_id}

\* Mutant: the win is always judged from the home side.
WinPctWon_HomeSide(game, team_id) == game.home_score > game.away_score

WinPctWon(game, team_id) ==
    IF game.home_team_id = team_id
    THEN game.home_score > game.away_score
    ELSE game.away_score > game.home_score

calculate_team_win_percentage(st, team_id, before_date, season_id, home_only, away_only) ==
    LET games == WinPctQuery(st, team_id, before_date, season_id, home_only, away_only)
        wins == Cardinality({g \in games : WinPctWon(g, team_id)})
    IN  IF Cardinality(games) = 0
        THEN WinPctPrior
        ELSE Frac(wins, Cardinality(games))

(* ----------------------- calculate_team_goals_per_game ---------------- *)
\* Mutant: the status filter is missing.
GoalsQuery_AnyStatus(st, team_id, before_date, season_id, home_only, away_only) ==
    LET base == {g \in st : /\ g.season_id = season_id
                            /\ g.date < before_date}
    IN  IF home_only THEN {g \in base : g.home_team_id = team_id}
        ELSE IF away_only THEN {g \in base : g.away_team_id = team_id}
        ELSE {g \in base : g.home_team_id = team_id \/ g.away_team_id = team_id}

GoalsQuery(st, team_id, before_date, season_id, home_only, away_only) ==
    LET base == {g \in st : /\ g.season_id = season_id
                            /\ g.date < before_date
                            /\ g.game_status = "final"}
    IN  IF home_only THEN {g \in base : g.home_team_id = team_id}
        ELSE IF away_only THEN {g \in base : g.away_team_id = team_id}
        ELSE {g \in base : g.home_team_id = team_id \/ g.away_team_id = team_id}

\* Mutant: the away branch takes the scores of the home branch.
GameGoals_HomeBranch(game, team_id, against) ==
    IF against THEN game.away_score ELSE game.home_score

GameGoals(game, team_id, against) ==
    IF game.home_team_id = team_id
    THEN IF against THEN game.away_score ELSE game.home_score
    ELSE IF against THEN game.home_score ELSE game.away_score

RECURSIVE TotalGoals(_, _, _)
TotalGoals(games, team_id, against) ==
    IF games = {} THEN 0
    ELSE LET g == CHOOSE x \in games : TRUE
         IN  GameGoals(g, team_id, against) + TotalGoals(games \ {g}, team_id, against)

calculate_team_goals_per_game(st, team_id, before_date, season_id, home_only, away_only, against) ==
    LET games == GoalsQuery(st, team_id, before_date, season_id, home_only, away_only)
    IN  IF Cardinality(games) = 0
        THEN GoalsPrior
        ELSE Frac(TotalGoals(games, team_id, against), Cardinality(games))

(* ----------------------------- calculate_days_rest -------------------- *)
\* Mutant: the cutoff test admits the contest date itself.
RestQuery_ThroughCutoff(st, team_id, game_date, season_id) ==
    {g \in st : /\ g.season_id = season_id
                /\ g.date <= game_date
                /\ g.game_status = "final"
                /\ (g.home_team_id = team_id \/ g.away_team_id = team_id)}

RestQuery(st, team_id, game_date, season_id) ==
    {g \in st : /\ g.season_id = season_id
                /\ g.date < game_date
                /\ g.game_status = "final"
                /\ (g.home_team_id = team_id \/ g.away_team_id = team_id)}

\* Mutant: the rows are ordered by ascending date.
LastGame_Earliest(st, team_id, game_date, season_id) ==
    LET rows == {g \in st : /\ g.season_id = season_id
                            /\ g.date < game_date
                            /\ g.game_status = "final"
                            /\ (g.home_team_id = team_id \/ g.away_team_id = team_id)}
    IN  IF rows = {} THEN {}
        ELSE {CHOOSE g \in rows : \A h \in rows : g.date <= h.date}

\* order_by(Game.date.desc()).first(): one row of the latest date, or none.
\* Rows of equal date are interchangeable here: only .date is used.
LastGame(st, team_id, game_date, season_id) ==
    LET rows == RestQuery(st, team_id, game_date, season_id)
    IN  IF rows = {} THEN {}
        ELSE {CHOOSE g \in rows : \A h \in rows : h.date <= g.date}

\* Mutant: no first-game prior.
calculate_days_rest_NoPrior(st, team_id, game_date, season_id) ==
    LET last_game == LastGame(st, team_id, game_date, season_id)
    IN  IF last_game = {} THEN 0
        ELSE game_date - (CHOOSE g \in last_game : TRUE).date

calculate_days_rest(st, team_id, game_date, season_id) ==
    LET last_game == LastGame(st, team_id, game_date, season_id)
    IN  IF last_game = {} THEN RestPrior
        ELSE game_date - (CHOOSE g \in last_game : TRUE).date

(* ------------------------ calculate_head_to_head_record --------------- *)
\* Mutant: the opponent is not part of the filter.
H2HQuery_AnyOpponent(st, team_id, opponent_id, before_date, season_id) ==
    {g \in st : /\ g.season_id = season_id
                /\ g.date < before_date
                /\ g.game_status = "final"
                /\ (g.home_team_id = team_id \/ g.away_team_id = team_id)}

H2HQuery(st, team_id, opponent_id, before_date, season_id) ==
    {g \in st : /\ g.season_id = season_id
                /\ g.date < before_date
                /\ g.game_status = "final"
                /\ \/ (g.home_team_id = team_id /\ g.away_team_id = opponent_id)
                   \/ (g.home_team_id = opponent_id /\ g.away_team_id = team_id)}

\* Mutant: a tie counts as a win.
H2HWon_TieWins(game, team_id) ==
    IF game.home_team_id = team_id
    THEN game.home_score >= game.away_score
    ELSE game.away_score >= game.home_score

H2HWon(game, team_id) ==
    IF game.home_team_id = team_id
    THEN game.home_score > game.away_score
    ELSE game.away_score > game.home_score

\* Mutant: tied meetings are left out of the denominator.
calculate_head_to_head_record_TiesExcluded(st, team_id, opponent_id, before_date, season_id) ==
    LET games == {g \in H2HQuery(st, team_id, opponent_id, before_date, season_id) :
                     g.home_score # g.away_score}
        wins == Cardinality({g \in games : H2HWon(g, team_id)})
    IN  IF Cardinality(games) = 0
        THEN H2HPrior
        ELSE Frac(wins, Cardinality(games))

calculate_head_to_head_record(st, team_id, opponent_id, before_date, season_id) ==
    LET games == H2HQuery(st, team_id, opponent_id, before_date, season_id)
        wins == Cardinality({g \in games : H2HWon(g, team_id)})
    IN  IF Cardinality(games) = 0
        THEN H2HPrior
        ELSE Frac(wins, Cardinality(games))

(* ------------------------------ get_game_features --------------------- *)
\* The eleven aggregator values fetched at lines 277-296, then the two
\* differentials of lines 299-300.
Aggregates(st, home_team_id, away_team_id, game_date, season_id) ==
    LET hgpg == calculate_team_goals_per_game(st, home_team_id, game_date, season_id, FALSE, FALSE, FALSE)
        agpg == calculate_team_goals_per_game(st, away_team_id, game_date, season_id, FALSE, FALSE, FALSE)
        hgapg == calculate_team_goals_per_game(st, home_team_id, game_date, season_id, FALSE, FALSE, TRUE)
        agapg == calculate_team_goals_per_game(st, away_team_id, game_date, season_id, FALSE, FALSE, TRUE)
    IN  [home_win_pct |-> calculate_team_win_percentage(st, home_team_id, game_date, season_id, FALSE, FALSE),
         away_win_pct |-> calculate_team_win_percentage(st, away_team_id, game_date, season_id, FALSE, FALSE),
         home_win_pct_at_home |-> calculate_team_win_percentage(st, home_team_id, game_date, season_id, TRUE, FALSE),
         away_win_pct_on_road |-> calculate_team_win_percentage(st, away_team_id, game_date, season_id, FALSE, TRUE),
         home_goals_per_game |-> hgpg,
         away_goals_per_game |-> agpg,
         home_goals_against_per_game |-> hgapg,
         away_goals_against_per_game |-> agapg,
         home_rest_days |-> calculate_days_rest(st, home_team_id, game_date, season_id),
         away_rest_days |-> calculate_days_rest(st, away_team_id, game_date, season_id),
         home_h2h_win_pct |-> calculate_head_to_head_record(st, home_team_id, away_team_id, game_date, season_id),
         home_goal_differential |-> FSub(hgpg, hgapg),
         away_goal_differential |-> FSub(agpg, agapg)]

\* Mutant: two entries of the dict literal change places.
ReducedFeatures_Reordered(a) ==
    << <<"home_goals_per_game", a.home_goals_per_game>>,
       <<"away_goals_per_game", a.away_goals_per_game>>,
       <<"home_goals_against_per_game", a.home_goals_against_per_game>>,
       <<"away_goals_against_per_game", a.away_goals_against_per_game>>,
       <<"home_h2h_win_pct", a.home_h2h_win_pct>>,
       <<"away_goal_differential", a.away_goal_differential>>,
       <<"away_win_pct_on_road", a.away_win_pct_on_road>> >>

ReducedFeatures(a) ==
    << <<"home_goals_per_game", a.home_goals_per_game>>,
       <<"away_goals_per_game", a.away_goals_per_game>>,
       <<"home_goals_against_per_game", a.home_goals_against_per_game>>,
       <<"away_goals_against_per_game", a.away_goals_against_per_game>>,
       <<"away_goal_differential", a.away_goal_differential>>,
       <<"home_h2h_win_pct", a.home_h2h_win_pct>>,
       <<"away_win_pct_on_road", a.away_win_pct_on_road>> >>

\* Mutant: the complement is taken of the overall win rate.
FullFeatures_WrongComplement(a) ==
    << <<"home_win_pct", a.home_win_pct>>,
       <<"away_win_pct", a.away_win_pct>>,
       <<"home_win_pct_at_home", a.home_win_pct_at_home>>,
       <<"away_win_pct_on_road", a.away_win_pct_on_road>>,
       <<"home_goals_per_game", a.home_goals_per_game>>,
       <<"away_goals_per_game", a.away_goals_per_game>>,
       <<"home_goals_against_per_game", a.home_goals_against_per_game>>,
       <<"away_goals_against_per_game", a.away_goals_against_per_game>>,
       <<"home_goal_differential", a.home_goal_differential>>,
       <<"away_goal_differential", a.away_goal_differential>>,
       <<"home_rest_days", FromInt(a.home_rest_days)>>,
       <<"away_rest_days", FromInt(a.away_rest_days)>>,
       <<"rest_advantage", FromInt(a.home_rest_days - a.away_rest_days)>>,
       <<"home_h2h_win_pct", a.home_h2h_win_pct>>,
       <<"away_h2h_win_pct", FSub(One, a.home_win_pct)>> >>

FullFeatures(a) ==
    << <<"home_win_pct", a.home_win_pct>>,
       <<"away_win_pct", a.away_win_pct>>,
       <<"home_win_pct_at_home", a.home_win_pct_at_home>>,
       <<"away_win_pct_on_road", a.away_win_pct_on_road>>,
       <<"home_goals_per_game", a.home_goals_per_game>>,
       <<"away_goals_per_game", a.away_goals_per_game>>,
       <<"home_goals_against_per_game", a.home_goals_against_per_game>>,
       <<"away_goals_against_per_game", a.away_goals_against_per_game>>,
       <<"home_goal_differential", a.home_goal_differential>>,
       <<"away_goal_differential", a.away_goal_differential>>,
       <<"home_rest_days", FromInt(a.home_rest_days)>>,
       <<"away_rest_days", FromInt(a.away_rest_days)>>,
       <<"rest_advantage", FromInt(a.home_rest_days - a.away_rest_days)>>,
       <<"home_h2h_win_pct", a.home_h2h_win_pct>>,
       <<"away_h2h_win_pct", FSub(One, a.home_h2h_win_pct)>> >>

get_game_features(st, home_team_id, away_team_id, game_date, season_id, feature_set) ==
    LET a == Aggregates(st, home_team_id, away_team_id, game_date, season_id)
    IN  IF feature_set = "reduced" THEN ReducedFeatures(a) ELSE FullFeatures(a)

\* Every row a query of one get_game_features call hands back to its aggregator.
RowsRead(st, home_team_id, away_team_id, game_date, season_id) ==
    WinPctQuery(st, home_team_id, game_date, season_id, FALSE, FALSE)
    \cup WinPctQuery(st, away_team_id, game_date, season_id, FALSE, FALSE)
    \cup WinPctQuery(st, home_team_id, game_date, season_id, TRUE, FALSE)
    \cup WinPctQuery(st, away_team_id, game_date, season_id, FALSE, TRUE)
    \cup GoalsQuery(st, home_team_id, game_date, season_id, FALSE, FALSE)
    \cup GoalsQuery(st, away_team_id, game_date, season_id, FALSE, FALSE)
    \cup LastGame(st, home_team_id, game_date, season_id)
    \cup LastGame(st, away_team_id, game_date, season_id)
    \cup H2HQuery(st, home_team_id, away_team_id, game_date, season_id)

QueryOf(fn, team_id, before_date, season_id) ==
    [fn |-> fn, team_id |-> team_id, before_date |-> before_date, season_id |-> season_id]

\* Mutant: the away side's head-to-head rate is fetched by a query of its own.
QueryLog_ExtraQuery(home_team_id, away_team_id, game_date, season_id) ==
    << QueryOf("win_pct", home_team_id, game_date, season_id),
       QueryOf("win_pct", away_team_id, game_date, season_id),
       QueryOf("win_pct_home", home_team_id, game_date, season_id),
       QueryOf("win_pct_away", away_team_id, game_date, season_id),
       QueryOf("goals_for", home_team_id, game_date, season_id),
       QueryOf("goals_for", away_team_id, game_date, season_id),
       QueryOf("goals_against", home_team_id, game_date, season_id),
       QueryOf("goals_against", away_team_id, game_date, season_id),
       QueryOf("days_rest", home_team_id, game_date, season_id),
       QueryOf("days_rest", away_team_id, game_date, season_id),
       QueryOf("h2h", home_team_id, game_date, season_id),
       QueryOf("h2h", away_team_id, game_date, season_id) >>

\* The store queries of one get_game_features call, in call order: each of
\* the eleven aggregator calls of lines 278-296 opens a session and issues one
\* query with the before_date and season_id it was handed.  The dicts of
\* lines 302-350 call no aggregator.
QueryLog(home_team_id, away_team_id, game_date, season_id) ==
    << QueryOf("win_pct", home_team_id, game_date, season_id),
       QueryOf("win_pct", away_team_id, game_date, season_id),
       QueryOf("win_pct_home", home_team_id, game_date, season_id),
       QueryOf("win_pct_away", away_team_id, game_date, season_id),
       QueryOf("goals_for", home_team_id, game_date, season_id),
       QueryOf("goals_for", away_team_id, game_date, season_id),
       QueryOf("goals_against", home_team_id, game_date, season_id),
       QueryOf("goals_against", away_team_id, game_date, season_id),
       QueryOf("days_rest", home_team_id, game_date, season_id),
       QueryOf("days_rest", away_team_id, game_date, season_id),
       QueryOf("h2h", home_team_id, game_date, season_id) >>

\* features[name] of a dict given as a sequence of <<name, value>> pairs.
Names(features) == [i \in 1..Len(features) |-> features[i][1]]

Lookup(features, name) ==
    (CHOOSE i \in 1..Len(features) : features[i][1] = name)

Value(features, name) == features[Lookup(features, name)][2]

\* The key order of the two dicts get_game_features can return.
ReducedNames == Names(get_game_features({}, 1, 2, 1, SeasonId, "reduced"))

FullNames == Names(get_game_features({}, 1, 2, 1, SeasonId, "full"))

HasKey(features, name) == \E i \in 1..Len(features) : features[i][1] = name

\* The feature_set argument written into the two get_game_features calls of
\* collect_training_data (model.py 130) and predict_single_game (predict.py 104).
TrainFeatureSet == "reduced"

PredictFeatureSet == "reduced"

(* ------------------------- PWHLPredictionModel ------------------------ *)
\* What fit can learn, as far as the classifier's answers go: one weight of
\* coef_ on one column and an intercept; the decision function of a row x is
\* weight * x[column] + intercept.
Weights ==
    {[column |-> 1, weight |-> 1, intercept |-> <<-1, 2>>],
     [column |-> 2, weight |-> -1, intercept |-> <<1, 2>>]}

NoWeights == [column |-> 0, weight |-> 0, intercept |-> <<0, 1>>]

\* An accuracy attribute that is still None.
NoAccuracy == <<>>

\* __init__: an unfitted LogisticRegression, no feature names, no metadata.
Unfitted == [fitted |-> FALSE, n_features |-> 0, coef |-> NoWeights]

NewInstance ==
    [model_type |-> "logistic_regression",
     model |-> Unfitted, feature_names |-> <<>>, trained_date |-> "None",
     training_accuracy |-> NoAccuracy, test_accuracy |-> NoAccuracy]

\* The sign of the fitted classifier's decision function on row x.
Decision(model, x) ==
    LET v == x[model.coef.column]
        c == model.coef.intercept
    IN  model.coef.weight * v[1] * c[2] + c[1] * v[2]

\* self.model.predict(X)[0] and self.model.predict_proba(X)[0] for one row:
\* the label is 1 iff the decision is positive, and predict_proba is
\* [1 - p, p] with p the sigmoid of the decision, kept at three levels.
Classify(model, x) ==
    LET s == Decision(model, x)
    IN  [prediction |-> IF s > 0 THEN 1 ELSE 0,
         probabilities |-> IF s > 0 THEN << <<1, 4>>, <<3, 4>> >>
                           ELSE IF s = 0 THEN << <<1, 2>>, <<1, 2>> >>
                           ELSE << <<3, 4>>, <<1, 4>> >>]

\* accuracy_score(y, self.model.predict(X)).
accuracy_score(model, X, y) ==
    Frac(Cardinality({k \in 1..Len(y) : Classify(model, X[k]).prediction = y[k]}), Len(y))

(* --------------------------- collect_training_data -------------------- *)
\* session.query(Game).filter(season, final).order_by(Game.date).all(): the
\* database fixes no order among rows of equal date, so every date-sorted
\* arrangement of the rows is a possible result.
SeasonFinalGames(st, season_id) ==
    {g \in st : g.season_id = season_id /\ g.game_status = "final"}

DateOrders(rows) ==
    {o \in [1..Cardinality(rows) -> rows] :
        /\ \A i, j \in 1..Cardinality(rows) : i # j => o[i] # o[j]
        /\ \A i, j \in 1..Cardinality(rows) : i < j => o[i].date <= o[j].date}

\* home_games_before / away_games_before (model.py lines 107-117).
GamesBefore(st, season_id, game, team_id) ==
    Cardinality({g \in st : /\ g.season_id = season_id
                             /\ g.date < game.date
                             /\ (g.home_team_id = team_id \/ g.away_team_id = team_id)})

Retained(st, season_id, min_games_played, game) ==
    ~ (\/ GamesBefore(st, season_id, game, game.home_team_id) < min_games_played
       \/ GamesBefore(st, season_id, game, game.away_team_id) < min_games_played)

\* Mutant: a tied contest is labelled as a home win.
HomeWon_TieCounts(game) == IF game.home_score >= game.away_score THEN 1 ELSE 0

HomeWon(game) == IF game.home_score > game.away_score THEN 1 ELSE 0

\* The loop of lines 104-150 over games[i..], threaded through the
\* accumulators acc = [X_data, y_data, game_ids, feature_names, skipped_early,
\* warned, labelled]; labelled keeps, for each labelled contest, the rows its
\* aggregator queries read.  feature_names is self.feature_names: it is taken
\* from the first computed dict only while it is empty, and every row is
\* built by looking its names up in the dict.  A name the dict lacks raises
\* KeyError inside the try block, which the except clause of lines 148-150
\* turns into a printed warning before the loop goes on to the next game.
RECURSIVE CollectLoop(_, _, _, _, _, _)
CollectLoop(st, season_id, min_games_played, games, i, acc) ==
    IF i > Len(games) THEN acc
    ELSE LET game == games[i]
         IN  IF ~ Retained(st, season_id, min_games_played, game)
             THEN CollectLoop(st, season_id, min_games_played, games, i + 1,
                              [acc EXCEPT !.skipped_early = @ + 1])
             ELSE LET features == get_game_features(st, game.home_team_id, game.away_team_id,
                                                    game.date, season_id, TrainFeatureSet)
                      names == IF acc.feature_names = <<>> THEN Names(features)
                               ELSE acc.feature_names
                      feature_vector == [k \in 1..Len(names) |-> Value(features, names[k])]
                  IN  IF \E k \in 1..Len(names) : ~ HasKey(features, names[k])
                      THEN CollectLoop(st, season_id, min_games_played, games, i + 1,
                               [acc EXCEPT !.warned = @ + 1])
                      ELSE
                      CollectLoop(st, season_id, min_games_played, games, i + 1,
                          [acc EXCEPT !.feature_names = names,
                                      !.X_data = Append(@, feature_vector),
                                      !.y_data = Append(@, HomeWon(game)),
                                      !.game_ids = Append(@, game.game_id),
                                      !.labelled = Append(@,
                                          [game |-> game,
                                           reads |-> RowsRead(st, game.home_team_id,
                                                              game.away_team_id, game.date,
                                                              season_id)])])

EmptyAcc ==
    [X_data |-> <<>>, y_data |-> <<>>, game_ids |-> <<>>, feature_names |-> <<>>,
     skipped_early |-> 0, warned |-> 0, labelled |-> <<>>]

\* The summary prints of lines 156-160 divide by len(y): with no labelled
\* contest the call ends in ZeroDivisionError instead of returning.
\* Mutant: every call starts from an empty name list.
collect_training_data_FreshNames(self, st, season_id, min_games_played, games) ==
    LET acc == CollectLoop(st, season_id, min_games_played, games, 1, EmptyAcc)
    IN  [outcome |-> IF Len(acc.y_data) = 0 THEN "ZeroDivisionError" ELSE "returned",
         X |-> acc.X_data, y |-> acc.y_data, game_ids |-> acc.game_ids,
         feature_names |-> acc.feature_names, skipped_early |-> acc.skipped_early,
         warned |-> acc.warned, entry_names |-> self.feature_names,
         labelled |-> acc.labelled, min_games_played |-> min_games_played,
         season_id |-> season_id]

collect_training_data(self, st, season_id, min_games_played, games) ==
    LET acc == CollectLoop(st, season_id, min_games_played, games, 1,
                           [EmptyAcc EXCEPT !.feature_names = self.feature_names])
    IN  [outcome |-> IF Len(acc.y_data) = 0 THEN "ZeroDivisionError" ELSE "returned",
         X |-> acc.X_data, y |-> acc.y_data, game_ids |-> acc.game_ids,
         feature_names |-> acc.feature_names, skipped_early |-> acc.skipped_early,
         warned |-> acc.warned, entry_names |-> self.feature_names,
         labelled |-> acc.labelled, min_games_played |-> min_games_played,
         season_id |-> season_id]

(* -------------------------------- train ------------------------------- *)
\* test_size as a fraction <<n, d>>: the default 0.2 and one half.
TestSizes == {<<1, 5>>, <<1, 2>>}

\* Mutant: the held-out rows are taken from the front.
TrainTestSplit_TestFirst(n_samples, test_size) ==
    LET n_test == (n_samples * test_size[1] + test_size[2] - 1) \div test_size[2]
        n_train == n_samples - n_test
    IN  [ok |-> n_train > 0,
         train |-> [k \in 1..n_train |-> n_test + k],
         test |-> [k \in 1..n_test |-> k]]

\* train_test_split(X, y, test_size=test_size, shuffle=False): n_test is
\* ceil(test_size * n_samples), n_train the rest; with shuffle=False the
\* training rows are the first n_train and the test rows the following
\* n_test; an empty training set is a ValueError.  (At these sizes the
\* float product rounds up to the same integer as the exact one.)
TrainTestSplit(n_samples, test_size) ==
    LET n_test == (n_samples * test_size[1] + test_size[2] - 1) \div test_size[2]
        n_train == n_samples - n_test
    IN  [ok |-> n_train > 0,
         train |-> [k \in 1..n_train |-> k],
         test |-> [k \in 1..n_test |-> n_train + k]]

Rows(M, idx) == [k \in 1..Len(idx) |-> M[idx[k]]]

Classes(y) == {y[k] : k \in 1..Len(y)}

\* train(self, X, y, test_size): split, fit, score, stamp.  fit needs two
\* classes in y_train (LogisticRegression raises ValueError otherwise); what
\* fit learns from the rows is the input coef.  The time stamp is a token.
train(self, X, y, test_size, coef) ==
    LET split == TrainTestSplit(Len(X), test_size)
        X_train == Rows(X, split.train)
        X_test == Rows(X, split.test)
        y_train == Rows(y, split.train)
        y_test == Rows(y, split.test)
        none == [train |-> <<>>, test |-> <<>>, X_train |-> <<>>, X_test |-> <<>>,
                 y_train |-> <<>>, y_test |-> <<>>, test_size |-> test_size]
        fitted == [fitted |-> TRUE, n_features |-> Len(X_train[1]), coef |-> coef]
        parts == [train |-> split.train, test |-> split.test,
                  X_train |-> X_train, X_test |-> X_test,
                  y_train |-> y_train, y_test |-> y_test, test_size |-> test_size]
    IN  IF ~ split.ok
        THEN [outcome |-> "ValueError", at |-> "train_test_split", self |-> self,
              result |-> none]
        ELSE IF Cardinality(Classes(y_train)) < 2
        THEN [outcome |-> "ValueError", at |-> "fit", self |-> self, result |-> parts]
        ELSE [outcome |-> "returned", at |-> "return",
              self |-> [self EXCEPT
                          !.model = fitted,
                          !.training_accuracy = accuracy_score(fitted, X_train, y_train),
                          !.test_accuracy = accuracy_score(fitted, X_test, y_test),
                          !.trained_date = "now"],
              result |-> parts]

(* ----------------------------- save / load ---------------------------- *)
\* What save() pickles.
ModelData(self) ==
    [model |-> self.model, model_type |-> self.model_type,
     feature_names |-> self.feature_names,
     trained_date |-> self.trained_date, training_accuracy |-> self.training_accuracy,
     test_accuracy |-> self.test_accuracy]

Artifact(self) == [kind |-> "artifact", data |-> ModelData(self)]

\* A model file left by an earlier completed training run.
TrainedArtifact(names, coef) ==
    Artifact([model_type |-> "logistic_regression",
              model |-> [fitted |-> TRUE, n_features |-> Len(names), coef |-> coef],
              feature_names |-> names, trained_date |-> "earlier",
              training_accuracy |-> One, test_accuracy |-> One])

FirstWeights == CHOOSE c \in Weights : c.column = 1

\* A model file left by a completed training run of this code
\* (feature_set='reduced'), and one left by a run that trained on the full
\* feature set.
ReducedArtifact == TrainedArtifact(ReducedNames, FirstWeights)

FullArtifact == TrainedArtifact(FullNames, FirstWeights)

\* A file that is not a readable pickle.
Corrupt == [kind |-> "corrupt"]

Reverse(s) == [k \in 1..Len(s) |-> s[Len(s) + 1 - k]]

\* Mutant: the restored name list comes back in another order.
load_NamesReordered(f) ==
    IF f.kind = "absent" THEN [outcome |-> "FileNotFoundError", instance |-> NewInstance]
    ELSE IF f.kind = "corrupt" THEN [outcome |-> "UnpicklingError", instance |-> NewInstance]
    ELSE IF f.data.test_accuracy = NoAccuracy
    THEN [outcome |-> "TypeError", instance |-> NewInstance]
    ELSE [outcome |-> "returned",
          instance |-> [model_type |-> f.data.model_type,
                        model |-> f.data.model,
                        feature_names |-> Reverse(f.data.feature_names),
                        trained_date |-> f.data.trained_date,
                        training_accuracy |-> f.data.training_accuracy,
                        test_accuracy |-> f.data.test_accuracy]]

\* PWHLPredictionModel.load(filepath): open, unpickle, rebuild the instance
\* with cls(model_type=...) and the pickled attributes, print its test
\* accuracy with a float format (a TypeError when it is None).
load(f) ==
    IF f.kind = "absent" THEN [outcome |-> "FileNotFoundError", instance |-> NewInstance]
    ELSE IF f.kind = "corrupt" THEN [outcome |-> "UnpicklingError", instance |-> NewInstance]
    ELSE IF f.data.test_accuracy = NoAccuracy
    THEN [outcome |-> "TypeError", instance |-> NewInstance]
    ELSE [outcome |-> "returned",
          instance |-> [model_type |-> f.data.model_type,
                        model |-> f.data.model, feature_names |-> f.data.feature_names,
                        trained_date |-> f.data.trained_date,
                        training_accuracy |-> f.data.training_accuracy,
                        test_accuracy |-> f.data.test_accuracy]]

(* ------------------------------ predict.py ---------------------------- *)
\* The teams table after load_teams.
TeamTable == Teams

\* get_team_name: the stored name, or "Team <id>" for an id with no row.
get_team_name(team_id) ==
    IF team_id \in TeamTable THEN <<"name", team_id>> ELSE <<"Team", team_id>>

\* An optional PWHLPredictionModel: None, or an instance.
NoModel == [given |-> FALSE, instance |-> NewInstance]

\* load_trained_model: None when the file does not exist or load() raises.
load_trained_model(f) ==
    IF f.kind = "absent" THEN NoModel
    ELSE LET r == load(f)
         IN  IF r.outcome = "returned" THEN [given |-> TRUE, instance |-> r.instance]
             ELSE NoModel

\* Mutant: the first argument is taken for the larger.
FMax_First(x, y) == x

FMax(x, y) == IF x[1] * y[2] > y[1] * x[2] THEN x ELSE y

None == [none |-> TRUE]

\* The single element of a one-element set.  A value bound by x \in {e} is
\* computed once, however often the body uses it.
The(S) == CHOOSE x \in S : TRUE

\* predict.py 107-155: the row in model.feature_names order, predict,
\* predict_proba and the result dict, for a features dict already computed.
PredictFromFeatures(instance_, features, home_team_id, away_team_id, game_date) ==
    LET names == instance_.feature_names
        home_team_name == get_team_name(home_team_id)
        away_team_name == get_team_name(away_team_id)
    IN  IF \E k \in 1..Len(names) : ~ HasKey(features, names[k])
        THEN [outcome |-> "KeyError", value |-> None]
        ELSE IF ~ instance_.model.fitted
        THEN [outcome |-> "NotFittedError", value |-> None]
        ELSE IF Len(names) # instance_.model.n_features
        THEN [outcome |-> "ValueError", value |-> None]
        ELSE The({
            The({[outcome |-> "returned",
                  value |-> [none |-> FALSE,
                             home_team_id |-> home_team_id,
                             away_team_id |-> away_team_id,
                             home_team_name |-> home_team_name,
                             away_team_name |-> away_team_name,
                             game_date |-> game_date,
                             home_win_probability |-> out.probabilities[2],
                             away_win_probability |-> out.probabilities[1],
                             predicted_winner |-> IF out.prediction = 1
                                                  THEN home_team_name
                                                  ELSE away_team_name,
                             confidence |-> FMax(out.probabilities[2],
                                                 out.probabilities[1]),
                             features |-> features,
                             feature_vector |-> feature_vector]] :
                 out \in {Classify(instance_.model, feature_vector)}}) :
            feature_vector \in {[k \in 1..Len(names) |-> Value(features, names[k])]}})

\* predict_single_game(home_team_id, away_team_id, game_date, season_id, model).
predict_single_game(st, f, home_team_id, away_team_id, game_date, season_id, model) ==
    The({IF ~ m.given THEN [outcome |-> "returned", value |-> None]
         ELSE The({PredictFromFeatures(m.instance, features, home_team_id, away_team_id,
                                       game_date) :
                   features \in {get_game_features(st, home_team_id, away_team_id,
                                                   game_date, season_id,
                                                   PredictFeatureSet)}}) :
         m \in {IF model.given THEN model ELSE load_trained_model(f)}})

\* get_upcoming_games: games of the season from today to today + days_ahead
\* that are not final.
get_upcoming_games(st, today, days_ahead, season_id) ==
    {g \in st : /\ g.season_id = season_id
                /\ g.date >= today
                /\ g.date <= today + days_ahead
                /\ g.game_status # "final"}

\* The loop of predict_upcoming_games over upcoming_games[i..]; an exception
\* of predict_single_game leaves the loop.
RECURSIVE PredictLoop(_, _, _, _, _, _, _)
PredictLoop(st, f, season_id, model, upcoming_games, i, results) ==
    IF i > Len(upcoming_games) THEN [outcome |-> "returned", value |-> results]
    ELSE LET game == upcoming_games[i]
             result == predict_single_game(st, f, game.home_team_id, game.away_team_id,
                                           game.date, season_id, model)
         IN  IF result.outcome # "returned"
             THEN [outcome |-> result.outcome, value |-> <<>>]
             ELSE PredictLoop(st, f, season_id, model, upcoming_games, i + 1,
                              IF result.value.none THEN results
                              ELSE Append(results, result.value))

\* predict_upcoming_games(days_ahead, season_id).
predict_upcoming_games(st, f, season_id, upcoming_games) ==
    LET model == load_trained_model(f)
    IN  IF ~ model.given THEN [outcome |-> "returned", value |-> <<>>]
        ELSE IF Len(upcoming_games) = 0 THEN [outcome |-> "returned", value |-> <<>>]
        ELSE PredictLoop(st, f, season_id, model, upcoming_games, 1, <<>>)

(* ------------------- get_game_features, call by call ------------------ *)
\* The aggregator calls of lines 278-296 in call order.
NumAggregatorCalls == 11

\* The value the k-th aggregator call returns on the table it finds.
AggregatorValue(k, st, home_team_id, away_team_id, game_date, season_id) ==
    CASE k = 1 -> calculate_team_win_percentage(st, home_team_id, game_date, season_id, FALSE, FALSE)
      [] k = 2 -> calculate_team_win_percentage(st, away_team_id, game_date, season_id, FALSE, FALSE)
      [] k = 3 -> calculate_team_win_percentage(st, home_team_id, game_date, season_id, TRUE, FALSE)
      [] k = 4 -> calculate_team_win_percentage(st, away_team_id, game_date, season_id, FALSE, TRUE)
      [] k = 5 -> calculate_team_goals_per_game(st, home_team_id, game_date, season_id, FALSE, FALSE, FALSE)
      [] k = 6 -> calculate_team_goals_per_game(st, away_team_id, game_date, season_id, FALSE, FALSE, FALSE)
      [] k = 7 -> calculate_team_goals_per_game(st, home_team_id, game_date, season_id, FALSE, FALSE, TRUE)
      [] k = 8 -> calculate_team_goals_per_game(st, away_team_id, game_date, season_id, FALSE, FALSE, TRUE)
      [] k = 9 -> calculate_days_rest(st, home_team_id, game_date, season_id)
      [] k = 10 -> calculate_days_rest(st, away_team_id, game_date, season_id)
      [] k = 11 -> calculate_head_to_head_record(st, home_team_id, away_team_id, game_date, season_id)

\* The rows the query of the k-th aggregator call hands back.
AggregatorRows(k, st, home_team_id, away_team_id, game_date, season_id) ==
    CASE k = 1 -> WinPctQuery(st, home_team_id, game_date, season_id, FALSE, FALSE)
      [] k = 2 -> WinPctQuery(st, away_team_id, game_date, season_id, FALSE, FALSE)
      [] k = 3 -> WinPctQuery(st, home_team_id, game_date, season_id, TRUE, FALSE)
      [] k = 4 -> WinPctQuery(st, away_team_id, game_date, season_id, FALSE, TRUE)
      [] k = 5 -> GoalsQuery(st, home_team_id, game_date, season_id, FALSE, FALSE)
      [] k = 6 -> GoalsQuery(st, away_team_id, game_date, season_id, FALSE, FALSE)
      [] k = 7 -> GoalsQuery(st, home_team_id, game_date, season_id, FALSE, FALSE)
      [] k = 8 -> GoalsQuery(st, away_team_id, game_date, season_id, FALSE, FALSE)
      [] k = 9 -> LastGame(st, home_team_id, game_date, season_id)
      [] k = 10 -> LastGame(st, away_team_id, game_date, season_id)
      [] k = 11 -> H2HQuery(st, home_team_id, away_team_id, game_date, season_id)

\* The locals of get_game_features once the eleven calls have returned,
\* with the two differentials of lines 299-300.
LocalsOf(values) ==
    [home_win_pct |-> values[1],
     away_win_pct |-> values[2],
     home_win_pct_at_home |-> values[3],
     away_win_pct_on_road |-> values[4],
     home_goals_per_game |-> values[5],
     away_goals_per_game |-> values[6],
     home_goals_against_per_game |-> values[7],
     away_goals_against_per_game |-> values[8],
     home_rest_days |-> values[9],
     away_rest_days |-> values[10],
     home_h2h_win_pct |-> values[11],
     home_goal_differential |-> FSub(values[5], values[7]),
     away_goal_differential |-> FSub(values[6], values[8])]


(* ------------------------------ state --------------------------------- *)
VARIABLES
    store,      \* the games table
    pc,         \* "idle", "features" (get_game_features returned), "collected"
    args,       \* arguments of the get_game_features call
    agg,        \* its local aggregator values
    features,   \* its returned dict, as a sequence of <<name, value>>
    reads,      \* rows its queries handed back
    queries,    \* the store queries it issued, in order
    training,   \* what the collect_training_data call left
    instance,   \* the PWHLPredictionModel object of the running process
    trained,    \* what the train call left
    file,       \* the model file on disk
    prediction, \* what the prediction call left
    calls       \* calls running beside other processes: their locals so far

vars == <<store, pc, args, agg, features, reads, queries, training, instance, trained,
          file, prediction, calls>>

NoArgs == [home_team_id |-> 0, away_team_id |-> 0, game_date |-> 0, season_id |-> 0,
           feature_set |-> "none"]

NoAgg == [none |-> TRUE]

NoTraining == [outcome |-> "none"]

NoTrained == [outcome |-> "none"]

NoPrediction == [outcome |-> "none"]

Absent == [kind |-> "absent"]

NoCalls == <<>>

Init ==
    /\ store = {}
    /\ pc = "idle"
    /\ args = NoArgs
    /\ agg = NoAgg
    /\ features = <<>>
    /\ reads = {}
    /\ queries = <<>>
    /\ training = NoTraining
    /\ instance = NewInstance
    /\ trained = NoTrained
    /\ file = Absent
    /\ prediction = NoPrediction
    /\ calls = NoCalls

\* load_game_data: the feed's summary of one game is merged into the table.
\* A game is new (the next id) or is a game still in progress loaded again,
\* whose teams, season and date stay and whose scores do not drop.
LoadGameData ==
    /\ pc = "idle"
    /\ \E game \in Matchups :
          /\ \/ game.game_id = Cardinality(store) + 1
             \/ \E old \in store :
                   /\ old.game_id = game.game_id
                   /\ old.game_status = "in_progress"
                   /\ game.season_id = old.season_id
                   /\ game.date = old.date
                   /\ game.home_team_id = old.home_team_id
                   /\ game.away_team_id = old.away_team_id
                   /\ game.home_score >= old.home_score
                   /\ game.away_score >= old.away_score
                   /\ game # old
          /\ store' = Merge(store, game)
    /\ UNCHANGED <<pc, args, agg, features, reads, queries, training, instance, trained,
                   file, prediction, calls>>

\* Mutant: the call deletes the rows its queries returned.
GetGameFeatures_ConsumesRows ==
    /\ pc = "idle"
    /\ \E fixture \in Fixtures, game_date \in CutoffDates,
          season_id \in {SeasonId}, feature_set \in FeatureSets :
       LET home_team_id == fixture[1]
           away_team_id == fixture[2]
       IN
          /\ args' = [home_team_id |-> home_team_id, away_team_id |-> away_team_id,
                      game_date |-> game_date, season_id |-> season_id,
                      feature_set |-> feature_set]
          /\ agg' = Aggregates(store, home_team_id, away_team_id, game_date, season_id)
          /\ features' = get_game_features(store, home_team_id, away_team_id, game_date,
                                           season_id, feature_set)
          /\ reads' = RowsRead(store, home_team_id, away_team_id, game_date, season_id)
          /\ queries' = QueryLog(home_team_id, away_team_id, game_date, season_id)
          /\ store' = store \ RowsRead(store, home_team_id, away_team_id, game_date,
                                       season_id)
    /\ pc' = "features"
    /\ UNCHANGED <<training, instance, trained, file, prediction, calls>>

GetGameFeatures ==
    /\ pc = "idle"
    /\ \E fixture \in Fixtures, game_date \in CutoffDates,
          season_id \in {SeasonId}, feature_set \in FeatureSets :
       LET home_team_id == fixture[1]
           away_team_id == fixture[2]
       IN
          /\ args' = [home_team_id |-> home_team_id, away_team_id |-> away_team_id,
                      game_date |-> game_date, season_id |-> season_id,
                      feature_set |-> feature_set]
          /\ agg' = Aggregates(store, home_team_id, away_team_id, game_date, season_id)
          /\ features' = get_game_features(store, home_team_id, away_team_id, game_date,
                                           season_id, feature_set)
          /\ reads' = RowsRead(store, home_team_id, away_team_id, game_date, season_id)
          /\ queries' = QueryLog(home_team_id, away_team_id, game_date, season_id)
    /\ pc' = "features"
    /\ UNCHANGED <<store, training, instance, trained, file, prediction, calls>>

\* model.collect_training_data(...) on a new or a restored instance.
CollectTrainingData ==
    /\ pc \in {"idle", "loaded"}
    /\ \E min_games_played \in 0..MaxMinGames :
       \E games \in DateOrders(SeasonFinalGames(store, SeasonId)) :
          training' = collect_training_data(instance, store, SeasonId, min_games_played,
                                            games)
    /\ instance' = [instance EXCEPT !.feature_names = training'.feature_names]
    /\ pc' = "collected"
    /\ UNCHANGED <<store, args, agg, features, reads, queries, trained, file, prediction, calls>>

\* The caller is done with the result; the process ends.
Finish ==
    /\ pc # "idle"
    /\ pc' = "idle"
    /\ args' = NoArgs
    /\ agg' = NoAgg
    /\ features' = <<>>
    /\ reads' = {}
    /\ queries' = <<>>
    /\ training' = NoTraining
    /\ instance' = NewInstance
    /\ trained' = NoTrained
    /\ prediction' = NoPrediction
    /\ calls' = NoCalls
    /\ UNCHANGED <<store, file>>

(* ------------------------- the training process ----------------------- *)
\* Final games of the season between the two teams of the fixture.
TrainMatchups ==
    {g \in [game_id : 1..MaxTrainGames, season_id : {SeasonId}, date : Dates,
            home_team_id : {1, 2}, away_team_id : {1, 2},
            home_score : Scores, away_score : Scores, game_status : {"final"}] :
        g.home_team_id # g.away_team_id}

\* load_game_data for a finished game of the season.
LoadFinalGame ==
    /\ pc = "idle"
    /\ \E game \in TrainMatchups :
          /\ game.game_id = Cardinality(store) + 1
          /\ store' = Merge(store, game)
    /\ UNCHANGED <<pc, args, agg, features, reads, queries, training, instance, trained,
                   file, prediction, calls>>

\* model = PWHLPredictionModel.load(filepath); an exception ends the process.
LoadModel ==
    /\ pc \in {"idle", "saved"}
    /\ LET r == load(file)
       IN  /\ instance' = r.instance
           /\ pc' = IF r.outcome = "returned" THEN "loaded" ELSE "failed"
    /\ UNCHANGED <<store, args, agg, features, reads, queries, training, trained, file,
                   prediction, calls>>

\* model.train(X, y, test_size) on what collect_training_data returned.
Train ==
    /\ pc = "collected"
    /\ training.outcome = "returned"
    /\ \E test_size \in TestSizes, coef \in Weights :
          LET r == train(instance, training.X, training.y, test_size, coef)
          IN  /\ trained' = [outcome |-> r.outcome, at |-> r.at] @@ r.result
              /\ instance' = r.self
    /\ pc' = "trained"
    /\ UNCHANGED <<store, args, agg, features, reads, queries, training, file, prediction, calls>>

InitTrain ==
    /\ store = {}
    /\ pc = "idle"
    /\ args = NoArgs
    /\ agg = NoAgg
    /\ features = <<>>
    /\ reads = {}
    /\ queries = <<>>
    /\ training = NoTraining
    /\ instance = NewInstance
    /\ trained = NoTrained
    /\ file \in {Absent, ReducedArtifact, FullArtifact}
    /\ prediction = NoPrediction
    /\ calls = NoCalls

NextTrain == LoadFinalGame \/ LoadModel \/ CollectTrainingData \/ Train \/ Finish

SpecTrain == InitTrain /\ [][NextTrain]_vars

(* ------------------------ the prediction process ---------------------- *)
\* Games of the season between the two teams of the fixture, finished or not.
FixtureMatchups ==
    {g \in Matchups : g.season_id = SeasonId /\ {g.home_team_id, g.away_team_id} = {1, 2}}

\* load_game_data for a game of the fixture's teams.
LoadFixtureGame ==
    /\ pc = "idle"
    /\ \E game \in FixtureMatchups :
          /\ game.game_id = Cardinality(store) + 1
          /\ store' = Merge(store, game)
    /\ UNCHANGED <<pc, args, agg, features, reads, queries, training, instance, trained,
                   file, prediction, calls>>

\* The matchups predict_single_game is asked about: the fixture, a team
\* against itself, and a team id with no row in any table.
PredictMatchups == {<<1, 2>>, <<1, 1>>, <<1, NumTeams + 1>>}

PredictSingleGame ==
    /\ pc = "idle"
    /\ \E matchup \in PredictMatchups, game_date \in CutoffDates :
          LET r == predict_single_game(store, file, matchup[1], matchup[2], game_date,
                                       SeasonId, NoModel)
          IN  prediction' = [call |-> "predict_single_game",
                             home_team_id |-> matchup[1], away_team_id |-> matchup[2],
                             game_date |-> game_date,
                             outcome |-> r.outcome, value |-> r.value]
    /\ pc' = "predicted"
    /\ UNCHANGED <<store, args, agg, features, reads, queries, training, instance, trained,
                   file, calls>>

PredictUpcomingGames ==
    /\ pc = "idle"
    /\ \E today \in CutoffDates :
       \E upcoming_games \in DateOrders(get_upcoming_games(store, today, DaysAhead, SeasonId)) :
          LET r == predict_upcoming_games(store, file, SeasonId, upcoming_games)
          IN  prediction' = [call |-> "predict_upcoming_games",
                             home_team_id |-> 0, away_team_id |-> 0,
                             game_date |-> today,
                             outcome |-> r.outcome, value |-> r.value]
    /\ pc' = "predicted"
    /\ UNCHANGED <<store, args, agg, features, reads, queries, training, instance, trained,
                   file, calls>>

InitPredict ==
    /\ store = {}
    /\ pc = "idle"
    /\ args = NoArgs
    /\ agg = NoAgg
    /\ features = <<>>
    /\ reads = {}
    /\ queries = <<>>
    /\ training = NoTraining
    /\ instance = NewInstance
    /\ trained = NoTrained
    /\ file \in {Absent, Corrupt, FullArtifact}
                 \cup {TrainedArtifact(ReducedNames, coef) : coef \in Weights}
    /\ prediction = NoPrediction
    /\ calls = NoCalls

NextPredict == LoadFixtureGame \/ PredictSingleGame \/ PredictUpcomingGames \/ Finish

SpecPredict == InitPredict /\ [][NextPredict]_vars

(* ------------------- one process that trains and saves ---------------- *)
\* model.save(filepath) after a completed train, as the __main__ block of
\* model.py does.
Save ==
    /\ pc = "trained"
    /\ trained.outcome = "returned"
    /\ file' = Artifact(instance)
    /\ pc' = "saved"
    /\ UNCHANGED <<store, args, agg, features, reads, queries, training, instance, trained,
                   prediction, calls>>

\* The table is loaded, then one process works on model objects: it may load
\* the file, collect, train, save, load what it saved and go round again.
NextSaveLoad == LoadFinalGame \/ LoadModel \/ CollectTrainingData \/ Train \/ Save

SpecSaveLoad == InitTrain /\ [][NextSaveLoad]_vars

(* ---------------- every caller that reads the games table -------------- *)
\* The table is loaded, then a process calls get_game_features, or collects
\* and trains, or predicts one game with the model of the file.
NextReaders ==
    \/ LoadFinalGame
    \/ GetGameFeatures
    \/ CollectTrainingData
    \/ Train
    \/ PredictSingleGame
    \/ Finish

SpecReaders == InitTrain /\ [][NextReaders]_vars

(* ------------- get_game_features beside the ingestion writer ---------- *)
\* get_game_features is entered: nothing is fetched yet.  The record keeps
\* the values fetched so far, the table as it was at entry and the games
\* committed since.
BeginGetGameFeatures ==
    /\ pc = "idle"
    /\ \E fixture \in Fixtures, game_date \in CutoffDates, feature_set \in FeatureSets :
          args' = [home_team_id |-> fixture[1], away_team_id |-> fixture[2],
                   game_date |-> game_date, season_id |-> SeasonId,
                   feature_set |-> feature_set]
    /\ calls' = << [values |-> <<>>, entry |-> store, commits |-> <<>>] >>
    /\ agg' = NoAgg
    /\ features' = <<>>
    /\ reads' = {}
    /\ queries' = <<>>
    /\ pc' = "fetching"
    /\ UNCHANGED <<store, training, instance, trained, file, prediction>>

\* The next aggregator call: it opens a session, queries the table as it is
\* now, closes the session and returns its value.
CallAggregator ==
    /\ pc = "fetching"
    /\ Len(calls[1].values) < NumAggregatorCalls
    /\ LET k == Len(calls[1].values) + 1
       IN  /\ calls' = [calls EXCEPT ![1].values =
                           Append(@, AggregatorValue(k, store, args.home_team_id,
                                                     args.away_team_id, args.game_date,
                                                     args.season_id))]
           /\ reads' = reads \cup AggregatorRows(k, store, args.home_team_id,
                                                 args.away_team_id, args.game_date,
                                                 args.season_id)
           /\ queries' = Append(queries, QueryLog(args.home_team_id, args.away_team_id,
                                                  args.game_date, args.season_id)[k])
    /\ UNCHANGED <<store, pc, args, agg, features, training, instance, trained, file,
                   prediction>>

\* The dict is built from the fetched values and returned.
ReturnFeatures ==
    /\ pc = "fetching"
    /\ Len(calls[1].values) = NumAggregatorCalls
    /\ agg' = LocalsOf(calls[1].values)
    /\ features' = IF args.feature_set = "reduced"
                      THEN ReducedFeatures(LocalsOf(calls[1].values))
                      ELSE FullFeatures(LocalsOf(calls[1].values))
    /\ pc' = "features"
    /\ UNCHANGED <<store, args, reads, queries, training, instance, trained, file,
                   prediction, calls>>

\* load_game_data in the ingestion process commits a finished game of the
\* fixture's teams, whatever the reading process is doing.
CommitFinalGame ==
    /\ pc \in {"idle", "fetching"}
    /\ \E game \in TrainMatchups :
          /\ game.game_id = Cardinality(store) + 1
          /\ game.game_id \in GameIds
          /\ store' = Merge(store, game)
          /\ calls' = IF pc = "fetching"
                        THEN [calls EXCEPT ![1].commits = Append(@, game)]
                        ELSE calls
    /\ UNCHANGED <<pc, args, agg, features, reads, queries, training, instance, trained,
                   file, prediction>>

\* The caller is done with the returned dict.
Release == pc = "features" /\ Finish

NextSnapshot ==
    \/ CommitFinalGame
    \/ BeginGetGameFeatures
    \/ CallAggregator
    \/ ReturnFeatures
    \/ Release

SpecSnapshot == Init /\ [][NextSnapshot]_vars


(* ------------- predict_single_game calls sharing one model ------------ *)
\* A caller that has not entered predict_single_game.
IdleCaller ==
    [step |-> "idle", home_team_id |-> 0, away_team_id |-> 0, game_date |-> 0,
     features |-> <<>>, feature_vector |-> <<>>, prediction |-> 0,
     probabilities |-> <<>>, outcome |-> "none", value |-> None]

\* The matchups the callers ask about: the fixture either way round.
SharedMatchups == {<<1, 2>>, <<2, 1>>}

\* load_game_data for a finished game, before any caller starts.
LoadServedGame ==
    /\ pc = "idle"
    /\ \E game \in TrainMatchups :
          /\ game.game_id = Cardinality(store) + 1
          /\ game.game_id \in GameIds
          /\ store' = Merge(store, game)
    /\ UNCHANGED <<pc, args, agg, features, reads, queries, training, instance, trained,
                   file, prediction, calls>>

\* model = load_trained_model(), as predict_upcoming_games does once; the
\* callers are handed this one object.  None ends the process.
ShareModel ==
    /\ pc = "idle"
    /\ LET m == load_trained_model(file)
       IN  IF m.given
           THEN /\ instance' = m.instance
                /\ pc' = "serving"
                /\ calls' = [c \in 1..NumCallers |-> IdleCaller]
           ELSE /\ pc' = "failed"
                /\ UNCHANGED <<instance, calls>>
    /\ UNCHANGED <<store, args, agg, features, reads, queries, training, trained, file,
                   prediction>>

\* predict_single_game(..., model=model) up to the features dict: the model
\* is given, the team names are looked up, get_game_features returns.
EnterPredict(c) ==
    /\ pc = "serving"
    /\ calls[c].step = "idle"
    /\ \E matchup \in SharedMatchups, game_date \in CutoffDates :
          calls' = [calls EXCEPT ![c] =
                      [@ EXCEPT !.step = "features",
                                !.home_team_id = matchup[1],
                                !.away_team_id = matchup[2],
                                !.game_date = game_date,
                                !.features = get_game_features(store, matchup[1], matchup[2],
                                                               game_date, SeasonId,
                                                               PredictFeatureSet)]]
    /\ UNCHANGED <<store, pc, args, agg, features, reads, queries, training, instance,
                   trained, file, prediction>>

\* [[features[name] for name in model.feature_names]]: a KeyError ends the call.
BuildVector(c) ==
    /\ pc = "serving"
    /\ calls[c].step = "features"
    /\ LET names == instance.feature_names
       IN  calls' = [calls EXCEPT ![c] =
                       IF \E k \in 1..Len(names) : ~ HasKey(calls[c].features, names[k])
                       THEN [@ EXCEPT !.step = "done", !.outcome = "KeyError"]
                       ELSE [@ EXCEPT !.step = "vector",
                                      !.feature_vector =
                                          [k \in 1..Len(names) |->
                                              Value(calls[c].features, names[k])]]]
    /\ UNCHANGED <<store, pc, args, agg, features, reads, queries, training, instance,
                   trained, file, prediction>>

\* Mutant: predict fits the classifier again before it answers.
ModelPredict_Refits(c) ==
    /\ pc = "serving"
    /\ calls[c].step = "vector"
    /\ instance' = [instance EXCEPT !.model.coef =
                       CHOOSE w \in Weights : w # instance.model.coef]
    /\ calls' = [calls EXCEPT ![c] =
                    IF ~ instance.model.fitted
                    THEN [@ EXCEPT !.step = "done", !.outcome = "NotFittedError"]
                    ELSE IF Len(calls[c].feature_vector) # instance.model.n_features
                    THEN [@ EXCEPT !.step = "done", !.outcome = "ValueError"]
                    ELSE [@ EXCEPT !.step = "predicted",
                                   !.prediction =
                                       Classify(instance'.model,
                                                calls[c].feature_vector).prediction]]
    /\ UNCHANGED <<store, pc, args, agg, features, reads, queries, training,
                   trained, file, prediction>>

\* prediction = model.predict(feature_vector)[0]
ModelPredict(c) ==
    /\ pc = "serving"
    /\ calls[c].step = "vector"
    /\ calls' = [calls EXCEPT ![c] =
                    IF ~ instance.model.fitted
                    THEN [@ EXCEPT !.step = "done", !.outcome = "NotFittedError"]
                    ELSE IF Len(calls[c].feature_vector) # instance.model.n_features
                    THEN [@ EXCEPT !.step = "done", !.outcome = "ValueError"]
                    ELSE [@ EXCEPT !.step = "predicted",
                                   !.prediction =
                                       Classify(instance.model,
                                                calls[c].feature_vector).prediction]]
    /\ UNCHANGED <<store, pc, args, agg, features, reads, queries, training, instance,
                   trained, file, prediction>>

\* probabilities = model.predict_proba(feature_vector)[0]
ModelPredictProba(c) ==
    /\ pc = "serving"
    /\ calls[c].step = "predicted"
    /\ calls' = [calls EXCEPT ![c] =
                    [@ EXCEPT !.step = "probabilities",
                              !.probabilities =
                                  Classify(instance.model,
                                           calls[c].feature_vector).probabilities]]
    /\ UNCHANGED <<store, pc, args, agg, features, reads, queries, training, instance,
                   trained, file, prediction>>

\* The result dict is built from the locals and returned.
ReturnResult(c) ==
    /\ pc = "serving"
    /\ calls[c].step = "probabilities"
    /\ LET l == calls[c]
           home_team_name == get_team_name(l.home_team_id)
           away_team_name == get_team_name(l.away_team_id)
           away_win_prob == l.probabilities[1]
           home_win_prob == l.probabilities[2]
       IN  calls' = [calls EXCEPT ![c] =
                       [@ EXCEPT !.step = "done",
                                 !.outcome = "returned",
                                 !.value =
                                    [none |-> FALSE,
                                     home_team_id |-> l.home_team_id,
                                     away_team_id |-> l.away_team_id,
                                     home_team_name |-> home_team_name,
                                     away_team_name |-> away_team_name,
                                     game_date |-> l.game_date,
                                     home_win_probability |-> home_win_prob,
                                     away_win_probability |-> away_win_prob,
                                     predicted_winner |-> IF l.prediction = 1
                                                          THEN home_team_name
                                                          ELSE away_team_name,
                                     confidence |-> FMax(home_win_prob, away_win_prob),
                                     features |-> l.features,
                                     feature_vector |-> l.feature_vector]]]
    /\ UNCHANGED <<store, pc, args, agg, features, reads, queries, training, instance,
                   trained, file, prediction>>

NextShared ==
    \/ LoadServedGame
    \/ ShareModel
    \/ \E c \in 1..NumCallers :
          \/ EnterPredict(c)
          \/ BuildVector(c)
          \/ ModelPredict(c)
          \/ ModelPredictProba(c)
          \/ ReturnResult(c)

SpecShared == InitPredict /\ [][NextShared]_vars


Next == LoadGameData \/ GetGameFeatures \/ CollectTrainingData \/ Finish

Spec == Init /\ [][Next]_vars

TypeOK ==
    /\ store \subseteq Matchups
    /\ \A g, h \in store : g.game_id = h.game_id => g = h
    /\ pc \in {"idle", "features", "collected"}

(***************************************************************************)
(* Properties.  The definitions below restate the documented behaviour     *)
(* directly from the games table, without the operators above.             *)
(***************************************************************************)
Called == pc = "features"

Home == args.home_team_id

Away == args.away_team_id

Plays(g, p) == g.home_team_id = p \/ g.away_team_id = p

OnSide(g, p, venue) ==
    CASE venue = "home_only" -> g.home_team_id = p
      [] venue = "away_only" -> g.away_team_id = p
      [] OTHER -> Plays(g, p)

\* Final contests of the season dated strictly before the cutoff.
Prior(st, before_date, season) ==
    {g \in st : g.game_status = "final" /\ g.season_id = season /\ g.date < before_date}

Qualifying(st, p, before_date, season, venue) ==
    {g \in Prior(st, before_date, season) : OnSide(g, p, venue)}

Q(p, venue) == Qualifying(store, p, args.game_date, args.season_id, venue)

Shared(p, o) ==
    {g \in Prior(store, args.game_date, args.season_id) :
        {g.home_team_id, g.away_team_id} = {p, o}}

OwnScore(g, p) == IF g.home_team_id = p THEN g.home_score ELSE g.away_score

OppScore(g, p) == IF g.home_team_id = p THEN g.away_score ELSE g.home_score

Outscored(g, p) == OwnScore(g, p) > OppScore(g, p)

Tied(g) == g.home_score = g.away_score

NumWon(games, p) == Cardinality({g \in games : Outscored(g, p)})

RECURSIVE SumOwn(_, _)
SumOwn(games, p) ==
    IF games = {} THEN 0
    ELSE LET g == CHOOSE x \in games : TRUE IN OwnScore(g, p) + SumOwn(games \ {g}, p)

RECURSIVE SumOpp(_, _)
SumOpp(games, p) ==
    IF games = {} THEN 0
    ELSE LET g == CHOOSE x \in games : TRUE IN OppScore(g, p) + SumOpp(games \ {g}, p)

\* value = n / d, by cross multiplication.
Is(value, n, d) == value[1] * d = n * value[2]

LatestDate(games) == CHOOSE d \in {g.date : g \in games} : \A g \in games : g.date <= d

\* C1: while collect_training_data labels a contest C, every row its aggregator
\* queries read is dated strictly before C.date; C itself and any contest of
\* C's date are never read.
C1_NoLeakageInTraining ==
    pc = "collected" =>
        \A i \in 1..Len(training.labelled) :
            LET c == training.labelled[i]
            IN  /\ \A r \in c.reads : r.date < c.game.date
                /\ c.game \notin c.reads
                /\ \A g \in store : g.date = c.game.date => g \notin c.reads

C1_Witness ==
    /\ pc = "collected"
    /\ \E i \in 1..Len(training.labelled) :
          /\ training.labelled[i].reads # {}
          /\ training.labelled[i].game \in store

\* C2: the vector get_game_features returns is the one it returns on the
\* table cut down to the final contests of the requested season dated before
\* contest_date, so two tables that agree on those contests give the same
\* vector; removing any other contest changes nothing.
C2_NonInterference ==
    Called =>
        /\ features = get_game_features(Prior(store, args.game_date, args.season_id),
                                        Home, Away, args.game_date, args.season_id,
                                        args.feature_set)
        /\ \A g \in store \ Prior(store, args.game_date, args.season_id) :
               features = get_game_features(store \ {g}, Home, Away, args.game_date,
                                            args.season_id, args.feature_set)

C2_Witness ==
    /\ Called
    /\ Q(Home, "either") # {}
    /\ \E g \in store : /\ g.home_team_id = Home /\ g.away_team_id = Away
                         /\ g.date >= args.game_date
                         /\ g.season_id = args.season_id /\ g.game_status = "final"

\* C3: with no qualifying prior contest the aggregators return the priors:
\* win rate 0.5, scoring and allowed rate 2.5, rest interval 7, and
\* head-to-head rate 0.5 for a pair without shared history.
C3_DefaultPriors ==
    Called =>
        /\ Q(Home, "either") = {} =>
              /\ agg.home_win_pct = <<1, 2>>
              /\ agg.home_goals_per_game = <<5, 2>>
              /\ agg.home_goals_against_per_game = <<5, 2>>
              /\ agg.home_rest_days = 7
        /\ Q(Away, "either") = {} =>
              /\ agg.away_win_pct = <<1, 2>>
              /\ agg.away_goals_per_game = <<5, 2>>
              /\ agg.away_goals_against_per_game = <<5, 2>>
              /\ agg.away_rest_days = 7
        /\ Q(Home, "home_only") = {} => agg.home_win_pct_at_home = <<1, 2>>
        /\ Q(Away, "away_only") = {} => agg.away_win_pct_on_road = <<1, 2>>
        /\ Shared(Home, Away) = {} => agg.home_h2h_win_pct = <<1, 2>>

\* The table holds a final contest of the pair, but none before the cutoff.
C3_Witness ==
    /\ Called
    /\ Q(Home, "either") = {} /\ Q(Away, "either") = {}
    /\ \E g \in store : /\ g.home_team_id = Home /\ g.away_team_id = Away
                         /\ g.season_id = args.season_id /\ g.game_status = "final"
                         /\ g.home_score > g.away_score

\* C4: win_rate is (qualifying contests the participant outscored its
\* opponent in) / (qualifying contests), for each venue filter, the win being
\* judged from the side the participant played on.
C4_WinRate ==
    Called =>
        /\ Q(Home, "either") # {} =>
              Is(agg.home_win_pct, NumWon(Q(Home, "either"), Home),
                 Cardinality(Q(Home, "either")))
        /\ Q(Away, "either") # {} =>
              Is(agg.away_win_pct, NumWon(Q(Away, "either"), Away),
                 Cardinality(Q(Away, "either")))
        /\ Q(Home, "home_only") # {} =>
              Is(agg.home_win_pct_at_home, NumWon(Q(Home, "home_only"), Home),
                 Cardinality(Q(Home, "home_only")))
        /\ Q(Away, "away_only") # {} =>
              Is(agg.away_win_pct_on_road, NumWon(Q(Away, "away_only"), Away),
                 Cardinality(Q(Away, "away_only")))

\* The home side has won one contest at home and lost one on the road.
C4_Witness ==
    /\ Called
    /\ \E g, h \in Q(Home, "either") :
          /\ g.home_team_id = Home /\ Outscored(g, Home)
          /\ h.away_team_id = Home /\ ~ Outscored(h, Home) /\ ~ Tied(h)
    /\ agg.home_win_pct = <<1, 2>>
    /\ agg.home_win_pct_at_home = <<1, 1>>

\* C5: a tied qualifying contest adds nothing to either side's win count but
\* is counted in the denominator of win_rate and head_to_head_rate, and in the
\* contest count of the scoring and allowed rates, for both participants.
C5_TiePolicy ==
    Called =>
        /\ \A g \in {t \in Q(Home, "either") : Tied(t)} :
              LET rest == Q(Home, "either") \ {g}
              IN  /\ Is(agg.home_win_pct, NumWon(rest, Home), Cardinality(rest) + 1)
                  /\ Is(agg.home_goals_per_game, SumOwn(rest, Home) + g.home_score,
                        Cardinality(rest) + 1)
                  /\ Is(agg.home_goals_against_per_game, SumOpp(rest, Home) + g.home_score,
                        Cardinality(rest) + 1)
        /\ \A g \in {t \in Q(Away, "either") : Tied(t)} :
              LET rest == Q(Away, "either") \ {g}
              IN  /\ Is(agg.away_win_pct, NumWon(rest, Away), Cardinality(rest) + 1)
                  /\ Is(agg.away_goals_per_game, SumOwn(rest, Away) + g.home_score,
                        Cardinality(rest) + 1)
                  /\ Is(agg.away_goals_against_per_game, SumOpp(rest, Away) + g.home_score,
                        Cardinality(rest) + 1)
        /\ \A g \in {t \in Shared(Home, Away) : Tied(t)} :
              LET rest == Shared(Home, Away) \ {g}
              IN  Is(agg.home_h2h_win_pct, NumWon(rest, Home), Cardinality(rest) + 1)

\* The pair has tied once and the home side has won once: 1 win in 2 contests
\* for the home side, 0 in 2 for the away side.
C5_Witness ==
    /\ Called
    /\ \E g, h \in Shared(Home, Away) : Tied(g) /\ Outscored(h, Home)
    /\ agg.home_win_pct = <<1, 2>>
    /\ agg.away_win_pct = <<0, 1>>
    /\ agg.home_h2h_win_pct = <<1, 2>>

\* C6: scoring_rate is the participant's own goals over its qualifying
\* contests divided by their number, allowed_rate the opponents' goals over
\* the same number, each score taken from the side the participant played on;
\* after a single prior contest the rates are that contest's two scores.
C6_GoalRates ==
    Called =>
        /\ Q(Home, "either") # {} =>
              /\ Is(agg.home_goals_per_game, SumOwn(Q(Home, "either"), Home),
                    Cardinality(Q(Home, "either")))
              /\ Is(agg.home_goals_against_per_game, SumOpp(Q(Home, "either"), Home),
                    Cardinality(Q(Home, "either")))
        /\ Q(Away, "either") # {} =>
              /\ Is(agg.away_goals_per_game, SumOwn(Q(Away, "either"), Away),
                    Cardinality(Q(Away, "either")))
              /\ Is(agg.away_goals_against_per_game, SumOpp(Q(Away, "either"), Away),
                    Cardinality(Q(Away, "either")))
        /\ \A g \in Q(Home, "either") :
              (Q(Home, "either") = {g} /\ g.home_team_id = Home) =>
                  /\ agg.home_goals_per_game = <<g.home_score, 1>>
                  /\ agg.home_goals_against_per_game = <<g.away_score, 1>>

\* The home side has scored on the road and conceded at home.
C6_Witness ==
    /\ Called
    /\ \E g, h \in Q(Home, "either") :
          /\ g.home_team_id = Home /\ g.home_score = 0 /\ g.away_score > 0
          /\ h.away_team_id = Home /\ h.away_score > 0 /\ h.home_score > 0
    /\ agg.home_goals_per_game = <<1, 2>>
    /\ agg.home_goals_against_per_game = <<1, 1>>

\* C7: rest_interval is before_date minus the latest date among the
\* participant's final contests of the season dated before before_date;
\* other contests do not count as the most recent one.
C7_RestInterval ==
    Called =>
        /\ Q(Home, "either") # {} =>
              agg.home_rest_days = args.game_date - LatestDate(Q(Home, "either"))
        /\ Q(Away, "either") # {} =>
              agg.away_rest_days = args.game_date - LatestDate(Q(Away, "either"))

\* Two prior final contests of the home side on different dates.
C7_Witness ==
    /\ Called
    /\ \E g, h \in Q(Home, "either") : g.date < h.date
    /\ agg.home_rest_days = 1

\* A later contest of the home side that is not final is passed over.
C7_WitnessNonFinal ==
    /\ Called
    /\ \E g \in Q(Home, "either"), h \in store :
          /\ Plays(h, Home) /\ h.game_status # "final" /\ h.season_id = args.season_id
          /\ g.date < h.date /\ h.date < args.game_date
    /\ agg.home_rest_days = 2

\* C8: head_to_head_rate is the team's win rate over exactly the final
\* contests of the season before before_date whose two sides are the team
\* and the opponent; contests against a third participant do not enter.
C8_HeadToHead ==
    (Called /\ Shared(Home, Away) # {}) =>
            Is(agg.home_h2h_win_pct, NumWon(Shared(Home, Away), Home),
               Cardinality(Shared(Home, Away)))

\* The home side lost to the opponent and beat a third participant.
C8_Witness ==
    /\ Called
    /\ \E g \in Shared(Home, Away) : Outscored(g, Away)
    /\ \E h \in Q(Home, "either") : ~ Plays(h, Away) /\ Outscored(h, Home)
    /\ agg.home_h2h_win_pct = <<0, 1>>
    /\ agg.home_win_pct = <<1, 2>>

\* C9: the reduced set is exactly 7 named values and the full set exactly 15,
\* each in its fixed order, whatever the table holds.
C9_FeatureNames ==
    Called =>
        Names(features) =
            IF args.feature_set = "reduced"
            THEN <<"home_goals_per_game", "away_goals_per_game",
                   "home_goals_against_per_game", "away_goals_against_per_game",
                   "away_goal_differential", "home_h2h_win_pct", "away_win_pct_on_road">>
            ELSE <<"home_win_pct", "away_win_pct", "home_win_pct_at_home",
                   "away_win_pct_on_road", "home_goals_per_game", "away_goals_per_game",
                   "home_goals_against_per_game", "away_goals_against_per_game",
                   "home_goal_differential", "away_goal_differential",
                   "home_rest_days", "away_rest_days", "rest_advantage",
                   "home_h2h_win_pct", "away_h2h_win_pct">>

C9_Witness ==
    /\ Called
    /\ args.feature_set = "reduced"
    /\ Len(features) = 7
    /\ Q(Home, "either") # {}

C9_WitnessFull ==
    /\ Called
    /\ args.feature_set = "full"
    /\ Len(features) = 15
    /\ Q(Home, "either") # {}

\* C10: in the full feature set home_h2h_win_pct + away_h2h_win_pct is 1.0,
\* with or without shared history of the pair.
C10_H2HComplement ==
    (Called /\ args.feature_set = "full") =>
        LET h == Value(features, "home_h2h_win_pct")
            a == Value(features, "away_h2h_win_pct")
        IN  h[1] * a[2] + a[1] * h[2] = h[2] * a[2]

C10_Witness ==
    /\ Called
    /\ args.feature_set = "full"
    /\ \E g \in Shared(Home, Away) : Tied(g)
    /\ Value(features, "home_h2h_win_pct") = <<0, 1>>
    /\ Value(features, "away_h2h_win_pct") = <<1, 1>>

C10_WitnessNoHistory ==
    /\ Called
    /\ args.feature_set = "full"
    /\ Shared(Home, Away) = {}
    /\ store # {}


\* C11: every store query of one get_game_features call uses the requested
\* contest_date as before_date and the requested season; the derived features
\* are arithmetic on the fetched aggregator values and issue no query.
C11_SingleCutoff ==
    Called =>
        /\ Len(queries) = 11
        /\ \A i \in 1..Len(queries) :
              /\ queries[i].before_date = args.game_date
              /\ queries[i].season_id = args.season_id
              /\ queries[i].team_id \in {Home, Away}
        /\ \A r \in reads : r.date < args.game_date /\ r.season_id = args.season_id
        /\ LET d == Value(features, "away_goal_differential")
               s == agg.away_goals_per_game
               c == agg.away_goals_against_per_game
           IN  d[1] * s[2] * c[2] = (s[1] * c[2] - c[1] * s[2]) * d[2]
        /\ args.feature_set = "full" =>
              /\ Value(features, "rest_advantage") =
                    <<agg.home_rest_days - agg.away_rest_days, 1>>
              /\ LET a == Value(features, "away_h2h_win_pct")
                     h == agg.home_h2h_win_pct
                 IN  a[1] * h[2] = (h[2] - h[1]) * a[2]
              /\ LET d == Value(features, "home_goal_differential")
                     s == agg.home_goals_per_game
                     c == agg.home_goals_against_per_game
                 IN  d[1] * s[2] * c[2] = (s[1] * c[2] - c[1] * s[2]) * d[2]

\* A full-set call whose queries found rows on both sides of the cutoff test.
C11_Witness ==
    /\ Called
    /\ args.feature_set = "full"
    /\ Len(queries) = 11
    /\ reads # {}
    /\ \E g \in store : g.date >= args.game_date /\ g.game_status = "final"
                         /\ g.season_id = args.season_id
    /\ Value(features, "rest_advantage") # <<0, 1>>


\* The contests a collect_training_data call labelled.
LabelledGames == {training.labelled[i].game : i \in 1..Len(training.labelled)}

\* C13: collect_training_data labels a contest iff both its sides have at
\* least min_games_played qualifying prior contests (final, same season,
\* dated strictly before it); prior rows that are not final do not count.
C13_EarlySeasonFilter ==
    pc = "collected" =>
        /\ LabelledGames =
              {g \in SeasonFinalGames(store, training.season_id) :
                  /\ Cardinality(Qualifying(store, g.home_team_id, g.date,
                                            training.season_id, "either"))
                        >= training.min_games_played
                  /\ Cardinality(Qualifying(store, g.away_team_id, g.date,
                                            training.season_id, "either"))
                        >= training.min_games_played}
        /\ Len(training.X) = Len(training.labelled)
        /\ Len(training.y) = Len(training.labelled)
        /\ Len(training.game_ids) = Len(training.labelled)

\* C15: every labelled contest has label 1 iff its home score exceeds its away
\* score, 0 otherwise (a tie is 0), and row i of X, y[i] and game_ids[i] are
\* those of one contest.
C15_LabelsAligned ==
    pc = "collected" =>
        /\ Len(training.X) = Len(training.game_ids)
        /\ Len(training.y) = Len(training.game_ids)
        /\ \A i \in 1..Len(training.game_ids) :
              \E g \in store :
                 /\ g.game_id = training.game_ids[i]
                 /\ training.y[i] \in {0, 1}
                 /\ training.y[i] = 1 <=> g.home_score > g.away_score
                 /\ LET f == get_game_features(store, g.home_team_id, g.away_team_id,
                                               g.date, training.season_id, "reduced")
                    IN  /\ Len(training.X[i]) = Len(training.feature_names)
                        /\ \A k \in 1..Len(training.feature_names) :
                              training.X[i][k] = Value(f, training.feature_names[k])
        /\ \A i, j \in 1..Len(training.game_ids) :
              i # j => training.game_ids[i] # training.game_ids[j]

\* Two contests were labelled, a tie with 0 and a home win with 1, and their
\* rows differ.
C15_Witness ==
    /\ pc = "collected"
    /\ Len(training.y) = 2
    /\ \E i, j \in 1..2 :
          /\ training.y[i] = 0 /\ training.y[j] = 1
          /\ training.X[i] # training.X[j]
          /\ \E g \in store : g.game_id = training.game_ids[i] /\ Tied(g)

\* C17: when no contest survives the filter, training fails with
\* InsufficientDataError.
C17_InsufficientData ==
    (pc = "collected" /\ Len(training.labelled) = 0) =>
        training.outcome = "InsufficientDataError"


GameOf(id) == CHOOSE g \in store : g.game_id = id

\* C14: after collect_training_data and train, the training rows are a prefix
\* and the test rows the remaining suffix of the date-ordered examples, so
\* every test example is dated on or after every training example.
C14_ChronologicalSplit ==
    (pc = "trained" /\ trained.at # "train_test_split") =>
        LET n == Len(training.game_ids)
            k == Len(trained.train)
        IN  /\ k >= 1 /\ k < n
            /\ trained.train = [i \in 1..k |-> i]
            /\ trained.test = [i \in 1..(n - k) |-> k + i]
            /\ trained.X_train = SubSeq(training.X, 1, k)
            /\ trained.X_test = SubSeq(training.X, k + 1, n)
            /\ trained.y_train = SubSeq(training.y, 1, k)
            /\ trained.y_test = SubSeq(training.y, k + 1, n)
            /\ \A i, j \in 1..n :
                  i < j => GameOf(training.game_ids[i]).date
                             <= GameOf(training.game_ids[j]).date
            /\ \A i \in 1..Len(trained.train), j \in 1..Len(trained.test) :
                  GameOf(training.game_ids[trained.train[i]]).date
                    <= GameOf(training.game_ids[trained.test[j]]).date

\* A completed training run whose test contest is dated after a training
\* contest, on a table loaded out of date order.
C14_Witness ==
    /\ pc = "trained"
    /\ trained.outcome = "returned"
    /\ instance.model.fitted
    /\ Len(trained.train) = 2
    /\ GameOf(training.game_ids[1]).date < GameOf(training.game_ids[3]).date
    /\ training.game_ids # <<1, 2, 3>>


\* The contests a collect_training_data call computed a vector for: those
\* that passed the early-season filter.
Computed == Len(training.labelled) + training.warned

\* C16: feature_names is fixed from the first computed vector; a computed
\* vector that does not expose feature_names in the same order makes the run
\* fail with FeatureContractError, and no contest is skipped over a mismatch.
C16_TrainingFeatureContract ==
    (pc = "collected" /\ Computed > 0) =>
        /\ training.warned = 0
        /\ training.outcome = "returned" => training.feature_names = ReducedNames
        /\ training.outcome # "returned" => training.outcome = "FeatureContractError"
        /\ training.entry_names \notin {<<>>, ReducedNames} =>
              training.outcome = "FeatureContractError"


\* C18: when the model file is absent or cannot be loaded, predict_single_game
\* and predict_upcoming_games fail with ModelNotFoundError; they return no
\* value (None, an empty list, a default result) in its place.
ValidMatchup ==
    /\ prediction.home_team_id # prediction.away_team_id
    /\ prediction.home_team_id \in TeamTable
    /\ prediction.away_team_id \in TeamTable

C18_MissingModel ==
    (/\ pc = "predicted"
     /\ file.kind # "artifact"
     /\ prediction.call = "predict_single_game" => ValidMatchup) =>
        prediction.outcome = "ModelNotFoundError"

\* C19: predict_single_game rejects with FeatureContractError a feature dict
\* whose names differ in order or count from the loaded model's feature_names.
C19_PredictionFeatureContract ==
    (/\ pc = "predicted"
     /\ prediction.call = "predict_single_game"
     /\ ValidMatchup
     /\ file.kind = "artifact"
     /\ Names(get_game_features(store, prediction.home_team_id, prediction.away_team_id,
                                prediction.game_date, SeasonId, "reduced"))
          # file.data.feature_names) =>
        prediction.outcome = "FeatureContractError"

\* C20: a prediction for a matchup with home_id = away_id, or with a
\* participant that has no row in the store, fails with InvalidMatchupError;
\* no probability is returned for it.
C20_InvalidMatchup ==
    (/\ pc = "predicted"
     /\ prediction.call = "predict_single_game"
     /\ file = ReducedArtifact
     /\ \/ prediction.home_team_id = prediction.away_team_id
        \/ prediction.home_team_id \notin TeamTable
        \/ prediction.away_team_id \notin TeamTable) =>
        prediction.outcome = "InvalidMatchupError"


\* The away side's own head-to-head rate against the home side.
AwayOwnH2H ==
    IF Shared(Away, Home) = {} THEN <<1, 2>>
    ELSE <<NumWon(Shared(Away, Home), Away), Cardinality(Shared(Away, Home))>>

SameRate(x, y) == x[1] * y[2] = y[1] * x[2]

C30_OutputRanges ==
    Called =>
        /\ \A v \in {agg.home_win_pct, agg.away_win_pct, agg.home_win_pct_at_home,
                      agg.away_win_pct_on_road, agg.home_h2h_win_pct} :
              v[2] > 0 /\ 0 <= v[1] /\ v[1] <= v[2]
        /\ \A v \in {agg.home_goals_per_game, agg.away_goals_per_game,
                      agg.home_goals_against_per_game, agg.away_goals_against_per_game} :
              v[2] > 0 /\ v[1] >= 0
        /\ agg.home_rest_days \in Int /\ agg.home_rest_days >= 1
        /\ agg.away_rest_days \in Int /\ agg.away_rest_days >= 1

\* The extremes are met: a side that won all, a side that scored nothing, a
\* rest of one day, and a final contest on the cutoff date itself.
C30_Witness ==
    /\ Called
    /\ agg.home_win_pct = <<1, 1>>
    /\ agg.away_goals_per_game = <<0, 1>>
    /\ agg.home_rest_days = 1
    /\ \E g \in store : /\ g.date = args.game_date /\ g.game_status = "final"
                         /\ g.season_id = args.season_id /\ Plays(g, Home)


Returned(call) ==
    /\ pc = "predicted"
    /\ prediction.call = call
    /\ prediction.outcome = "returned"

\* C21: for a loaded model, predict_single_game returns the classifier's
\* probability of class 1 as home_win_probability and of class 0 as
\* away_win_probability, the home side as predicted_winner iff the predicted
\* label is 1, and confidence = the larger probability, from a vector whose
\* values are in model.feature_names order.
C21_PredictionResult ==
    (Returned("predict_single_game") /\ ~ prediction.value.none) =>
        LET r == prediction.value
            model == load(file).instance
            f == get_game_features(store, r.home_team_id, r.away_team_id, r.game_date,
                                   SeasonId, "reduced")
            x == [k \in 1..Len(model.feature_names) |-> Value(f, model.feature_names[k])]
            out == Classify(model.model, x)
        IN  /\ r.home_team_id = prediction.home_team_id
            /\ r.away_team_id = prediction.away_team_id
            /\ r.game_date = prediction.game_date
            /\ r.features = f
            /\ r.home_win_probability = out.probabilities[2]
            /\ r.away_win_probability = out.probabilities[1]
            /\ out.prediction = 1 => r.predicted_winner = get_team_name(r.home_team_id)
            /\ out.prediction # 1 => r.predicted_winner = get_team_name(r.away_team_id)
            /\ r.home_team_id # r.away_team_id =>
                  (r.predicted_winner = get_team_name(r.home_team_id) <=> out.prediction = 1)
            /\ r.confidence \in {r.home_win_probability, r.away_win_probability}
            /\ r.confidence[1] * r.home_win_probability[2]
                  >= r.home_win_probability[1] * r.confidence[2]
            /\ r.confidence[1] * r.away_win_probability[2]
                  >= r.away_win_probability[1] * r.confidence[2]

\* A prediction for the fixture on a table with history, the away side
\* predicted with confidence 3/4.
C21_Witness ==
    /\ Returned("predict_single_game")
    /\ ~ prediction.value.none
    /\ prediction.home_team_id = 1 /\ prediction.away_team_id = 2
    /\ prediction.value.predicted_winner = get_team_name(2)
    /\ prediction.value.confidence = <<3, 4>>
    /\ prediction.value.away_win_probability = <<3, 4>>
    /\ \E g \in store : g.game_status = "final" /\ g.date < prediction.game_date


\* The feature set a list of feature names belongs to.
KindOf(names) ==
    IF names = ReducedNames THEN "reduced"
    ELSE IF names = FullNames THEN "full"
    ELSE "other"

\* C22: the model file carries feature_set_kind with feature_names, and a
\* prediction computes its vector with the feature set the model was trained
\* on.
C22_FeatureSetAgreement ==
    (/\ pc = "predicted"
     /\ prediction.call = "predict_single_game"
     /\ file.kind = "artifact") =>
        /\ PredictFeatureSet = KindOf(file.data.feature_names)
        /\ "feature_set_kind" \in DOMAIN file.data
        /\ prediction.outcome = "returned"


C23_WitnessLoaded ==
    /\ pc = "loaded"
    /\ instance.trained_date = "now"
    /\ trained.outcome = "returned"


\* The model object a training run started from: a new instance, or the one
\* load() returned.
EntryInstance ==
    IF training.entry_names = <<>> THEN NewInstance ELSE load(file).instance

AllSet(m) ==
    /\ m.model.fitted
    /\ m.feature_names # <<>>
    /\ m.trained_date # "None"
    /\ m.training_accuracy # NoAccuracy
    /\ m.test_accuracy # NoAccuracy

\* C26: a training run (collect_training_data, then train) either completes
\* with classifier, feature_names, trained_date and both accuracies set, or
\* fails leaving the model object as it was before the run.
C26_AllOrNothing ==
    /\ (pc = "collected" /\ training.outcome # "returned") => instance = EntryInstance
    /\ (pc = "trained" /\ trained.outcome # "returned") => instance = EntryInstance
    /\ (pc = "trained" /\ trained.outcome = "returned") => AllSet(instance)


\* The key order of the dict computed for a labelled contest.
KeyOrder(c) ==
    Names(get_game_features(store, c.game.home_team_id, c.game.away_team_id,
                            c.game.date, training.season_id, "reduced"))

\* After collect_training_data the names are those the object came in with,
\* or, when it had none, the key order of the first vector computed.
NamesKept ==
    pc = "collected" =>
        instance.feature_names =
            IF training.entry_names # <<>> THEN training.entry_names
            ELSE IF Len(training.labelled) > 0 THEN KeyOrder(training.labelled[1])
            ELSE <<>>

\* load restores the list of the file; train and save leave the list alone.
NamesRestored ==
    /\ pc = "loaded" => instance.feature_names = file.data.feature_names
    /\ pc \in {"trained", "saved"} => instance.feature_names = training.feature_names
    /\ pc = "saved" => file.data.feature_names = training.feature_names

RowsInNameOrder ==
    (pc = "collected" /\ training.outcome = "returned") =>
        /\ training.feature_names = instance.feature_names
        /\ \A i \in 1..Len(training.X) :
              LET computed == get_game_features(store,
                                                training.labelled[i].game.home_team_id,
                                                training.labelled[i].game.away_team_id,
                                                training.labelled[i].game.date,
                                                training.season_id, "reduced")
              IN  /\ Len(training.X[i]) = Len(instance.feature_names)
                  /\ \A k \in 1..Len(instance.feature_names) :
                        training.X[i][k] = Value(computed, instance.feature_names[k])

C29_WitnessRestored ==
    /\ pc = "collected"
    /\ training.entry_names = FullNames
    /\ instance.feature_names = FullNames
    /\ training.warned > 0


\* A step in which one of the reading calls returned or raised.
ReaderStep == pc' \in {"features", "collected", "trained", "predicted"}

\* C25: the aggregators inside get_game_features, get_game_features,
\* collect_training_data, train and predict_single_game leave the set of
\* game records as it was, whether they return or raise.
C25_ReadOnlyStore == [][ReaderStep => store' = store]_vars

\* train raised on the rows collected from a table of one game.
C25_Witness ==
    /\ pc = "trained"
    /\ trained.outcome = "ValueError"
    /\ Cardinality(store) = 1

\* A prediction was returned over a table of three games.
C25_WitnessPredicted ==
    /\ Returned("predict_single_game")
    /\ ~ prediction.value.none
    /\ Cardinality(store) = MaxTrainGames

\* get_game_features returned after its queries read two rows.
C25_WitnessFeatures ==
    /\ pc = "features"
    /\ Cardinality(reads) = 2
    /\ Cardinality(store) = MaxTrainGames


\* The dict get_game_features returns when it runs alone on a table.
VectorOn(st) ==
    get_game_features(st, args.home_team_id, args.away_team_id, args.game_date,
                      args.season_id, args.feature_set)

\* One final game dated before the cutoff was committed during the call.
OneCommitDuringCall ==
    /\ pc = "features"
    /\ Len(calls) = 1
    /\ Len(calls[1].commits) = 1
    /\ calls[1].commits[1].game_status = "final"
    /\ calls[1].commits[1].date < args.game_date

\* C28: when load_game_data commits one final game dated before game_date
\* while a get_game_features call is in progress, the returned dict is the
\* dict of the table before the commit or the dict of the table after it.
C28_SnapshotConsistency ==
    OneCommitDuringCall =>
        \/ features = VectorOn(calls[1].entry)
        \/ features = VectorOn(Merge(calls[1].entry, calls[1].commits[1]))


\* What predict_single_game returns for a caller's arguments when it runs
\* alone with the model that was loaded from the file.
Alone(c) ==
    predict_single_game(store, file, calls[c].home_team_id, calls[c].away_team_id,
                        calls[c].game_date, SeasonId, load_trained_model(file))

\* C24: while predict_single_game calls that were handed one loaded model
\* run interleaved on an unchanged table, the model object stays as it was
\* loaded, and a call that has ended has the outcome and the result it has
\* when it runs alone.
C24_SharedModel ==
    pc = "serving" =>
        /\ instance = load_trained_model(file).instance
        /\ \A c \in 1..NumCallers :
              calls[c].step = "done" =>
                  /\ calls[c].outcome = Alone(c).outcome
                  /\ calls[c].value = Alone(c).value

\* Two calls ended with different winners while the other was in progress.
C24_Witness ==
    /\ pc = "serving"
    /\ calls[1].outcome = "returned" /\ calls[2].outcome = "returned"
    /\ calls[1].home_team_id = calls[2].home_team_id
    /\ calls[1].value.predicted_winner # calls[2].value.predicted_winner
    /\ Cardinality(store) = MaxGames

\* One call has its vector while the other is between predict and predict_proba.
C24_WitnessInterleaved ==
    /\ pc = "serving"
    /\ calls[1].step = "vector"
    /\ calls[2].step = "predicted"
    /\ store # {}

\* Both calls ended in KeyError on a model with the full-set names.
C24_WitnessKeyError ==
    /\ pc = "serving"
    /\ \A c \in 1..NumCallers : calls[c].outcome = "KeyError"

====
